---- MODULE Spec2Model ----
(***************************************************************************)
(* Model of main.py: the daily multi-repository commit summary pipeline.   *)
(* Text is modelled as a sequence of symbols: one-character strings, plus  *)
(* the three sentinel tokens of the git pretty format, each one symbol.    *)
(***************************************************************************)
EXTENDS Integers, Sequences, FiniteSets, TLC

\* ------------------------------------------------------------------ bounds
MaxRepos == 2
MaxCommits == 2

\* --------------------------------------------------------------- constants
HashKeep == 8
SentinelLen == 1

COMMIT_START == "COMMIT_START"
COMMIT_MESSAGE_START == "COMMIT_MESSAGE_START"
COMMIT_END == "COMMIT_END"
NL == "\n"
Whitespace == {" ", NL}

\* ------------------------------------------------- Python string helpers
RECURSIVE LStrip(_)
LStrip(s) ==
    IF s = <<>> THEN s
    ELSE IF Head(s) \in Whitespace THEN LStrip(Tail(s)) ELSE s

RECURSIVE RStrip(_)
RStrip(s) ==
    IF s = <<>> THEN s
    ELSE IF s[Len(s)] \in Whitespace THEN RStrip(SubSeq(s, 1, Len(s) - 1)) ELSE s

Strip(s) == RStrip(LStrip(s))

\* str.find: 0-based index of the first occurrence, -1 when absent
Find(s, t) ==
    IF \E i \in 1..Len(s) : s[i] = t
    THEN (CHOOSE i \in 1..Len(s) : s[i] = t /\ \A j \in 1..(i - 1) : s[j] # t) - 1
    ELSE -1

\* s[a:b] with Python's treatment of negative and out-of-range indices
PySlice(s, a, b) ==
    LET norm(i) == IF i < 0 THEN (IF i + Len(s) < 0 THEN 0 ELSE i + Len(s))
                   ELSE (IF i > Len(s) THEN Len(s) ELSE i)
    IN  SubSeq(s, norm(a) + 1, norm(b))

\* str.split(sep, maxsplit); maxsplit = -1 means no limit
RECURSIVE SplitN(_, _, _)
SplitN(s, sep, maxsplit) ==
    IF maxsplit = 0 \/ Find(s, sep) = -1 THEN <<s>>
    ELSE LET i == Find(s, sep)
         IN  <<SubSeq(s, 1, i)>> \o SplitN(SubSeq(s, i + 2, Len(s)), sep, maxsplit - 1)

Split(s, sep) == SplitN(s, sep, -1)

RECURSIVE Join(_, _)
Join(parts, sep) ==
    IF parts = <<>> THEN <<>>
    ELSE IF Len(parts) = 1 THEN parts[1]
    ELSE parts[1] \o <<sep>> \o Join(Tail(parts), sep)

\* ------------------------------------------------------------ git output
Hashes == { <<"1","2","3","4","5","6","7","8","9","a">> }
Authors == { <<"n">> }
Dates == { <<"d">> }
Messages == { <<"m","|","m">>, <<" ","m",NL,"k",NL>>, <<"f">> }
Commits == [H : Hashes, an : Authors, ad : Dates, B : Messages]
CommitLists == UNION { [1..n -> Commits] : n \in 0..MaxCommits }

\* a commit whose message text itself contains the start sentinel
SentinelCommit ==
    [H |-> <<"1","2","3","4","5","6","7","8","9","a">>, an |-> <<"n">>,
     ad |-> <<"d">>, B |-> <<"m", COMMIT_START, "m">>]

\* --pretty=format:COMMIT_START%H|%an|%ad%nCOMMIT_MESSAGE_START%B%nCOMMIT_END
FormatCommit(c) ==
    <<COMMIT_START>> \o c.H \o <<"|">> \o c.an \o <<"|">> \o c.ad \o <<NL>>
      \o <<COMMIT_MESSAGE_START>> \o c.B \o <<NL>> \o <<COMMIT_END>>

GitLog(cs) == Join([i \in 1..Len(cs) |-> FormatCommit(cs[i])], NL)

GitOutputs == { GitLog(cs) : cs \in CommitLists } \cup { GitLog(<<SentinelCommit>>) }

\* -------------------------------------------------- get_commits_by_date
ShortHash_full(hash_val) == hash_val
ShortHash(hash_val) == SubSeq(hash_val, 1, HashKeep)

\* one iteration of the loop over commit_blocks; the unpacking of
\* header.split('|', 2) raises ValueError unless it yields three fields
ParseBlock(block, repo_name) ==
    LET lines == Split(Strip(block), NL)
        header == lines[1]
        fields == SplitN(header, "|", 2)
        message_start == Find(block, COMMIT_MESSAGE_START) + SentinelLen
        message_end == Find(block, COMMIT_END)
    IN  IF Len(fields) # 3 THEN [exc |-> "ValueError", commit |-> <<>>]
        ELSE [exc |-> "none",
              commit |-> [hash |-> ShortHash(fields[1]),
                          author |-> fields[2],
                          date |-> fields[3],
                          message |-> Strip(PySlice(block, message_start, message_end)),
                          repo |-> repo_name]]

RECURSIVE ParseBlocks(_, _)
ParseBlocks(blocks, repo_name) ==
    IF blocks = <<>> THEN [exc |-> "none", commits |-> <<>>]
    ELSE IF Strip(Head(blocks)) = <<>> THEN ParseBlocks(Tail(blocks), repo_name)
    ELSE LET b == ParseBlock(Head(blocks), repo_name)
         IN  IF b.exc # "none" THEN [exc |-> b.exc, commits |-> <<>>]
             ELSE LET rest == ParseBlocks(Tail(blocks), repo_name)
                  IN  IF rest.exc # "none" THEN rest
                      ELSE [exc |-> "none", commits |-> <<b.commit>> \o rest.commits]

ParseOutput(out, repo_name) ==
    IF Strip(out) = <<>> THEN [exc |-> "none", commits |-> <<>>]
    ELSE ParseBlocks(Tail(Split(Strip(out), COMMIT_START)), repo_name)

\* ------------------------------------------------------------ .env file
PathEntries == { <<"a">> }
NameEntries == { <<"A">>, <<" ", "B">> }
PathValues == { Join(ps, ",") : ps \in UNION { [1..n -> PathEntries] : n \in 1..MaxRepos } }
NameValues == { Join(ns, ",") : ns \in UNION { [1..n -> NameEntries] : n \in 1..MaxRepos } }

\* contents of .env as load_env returns them; a key may be absent
EnvFiles ==
    { [k \in {"REPO_PATHS", "REPO_NAMES"} |->
          IF k = "REPO_PATHS" THEN p ELSE n] : p \in PathValues, n \in NameValues }
    \cup { [k \in {"REPO_NAMES"} |-> n] : n \in NameValues }

\* dict.get(key, default)
EnvGet(env, key, default) == IF key \in DOMAIN env THEN env[key] ELSE default

\* ------------------------------------------------- ordered dict helpers
HasKey(d, k) == \E i \in 1..Len(d) : d[i].name = k
DictGet(d, k) == d[CHOOSE i \in 1..Len(d) : d[i].name = k].commits
\* d[k] = v: replaces the value of an existing key in place, else appends
DictSet(d, k, v) ==
    IF HasKey(d, k)
    THEN [i \in 1..Len(d) |-> IF d[i].name = k THEN [name |-> k, commits |-> v] ELSE d[i]]
    ELSE Append(d, [name |-> k, commits |-> v])

RECURSIVE SumLens(_)
SumLens(d) == IF d = <<>> THEN 0 ELSE Len(Head(d).commits) + SumLens(Tail(d))

\* ------------------------------------------------------------- constants
StartDir == <<".">>
\* every summary text is a pair <<fixed text, interpolated part>>
Unset == <<"unset", "">>
EmptyString == <<"", "">>
NoCommitsToday == <<"No commits found for today.", "">>
NoCommitsAcross == <<"No commits found across all projects today.", "">>
EmptyDict == <<"{}", "">>
NoResponse == <<"No response from Ollama", "">>
NoBullets == <<"No bullet points generated", "">>
Response1 == <<"response", "concise">>
Response2 == <<"response", "bullet">>
ErrorWithOllama(e) == <<"Error with Ollama: ", e>>

GitFailures == { "CalledProcessError", "FileNotFoundError" }
ChdirFailures == { "FileNotFoundError", "NotADirectoryError", "PermissionError" }
CurlOutcomes == { "ok", "no_field", "CalledProcessError", "JSONDecodeError" }

VARIABLES pc, exitCode, exitReason, env_vars, repo_paths, repo_names, idx,
          cwd, original_dir, exc, ret, stdout, gitOutcome, diag,
          all_commits, project_commits, results, total_commits,
          concise_summary, bullet_points, httpCalls, emailed, written, log

vars == <<pc, exitCode, exitReason, env_vars, repo_paths, repo_names, idx,
          cwd, original_dir, exc, ret, stdout, gitOutcome, diag,
          all_commits, project_commits, results, total_commits,
          concise_summary, bullet_points, httpCalls, emailed, written, log>>

cfgVars == <<env_vars, repo_paths, repo_names>>
gitVars == <<original_dir, exc, ret, stdout, gitOutcome, diag>>
aggVars == <<all_commits, project_commits, results>>
sumVars == <<concise_summary, bullet_points, httpCalls>>
outVars == <<emailed, written>>

Init ==
    /\ pc = "load_env"
    /\ exitCode = -1
    /\ exitReason = "none"
    /\ env_vars = << >>
    /\ repo_paths = << >>
    /\ repo_names = << >>
    /\ idx = 1
    /\ cwd = StartDir
    /\ original_dir = StartDir
    /\ exc = "none"
    /\ ret = << >>
    /\ stdout = << >>
    /\ gitOutcome = "none"
    /\ diag = "none"
    /\ all_commits = << >>
    /\ project_commits = << >>
    /\ results = << >>
    /\ total_commits = 0
    /\ concise_summary = Unset
    /\ bullet_points = Unset
    /\ httpCalls = << >>
    /\ emailed = [attempted |-> FALSE]
    /\ written = [done |-> FALSE]
    /\ log = << >>

\* sys.exit(code), or the interpreter ending on an uncaught exception
Exit(code, reason) ==
    /\ pc' = "exited"
    /\ exitCode' = code
    /\ exitReason' = reason

\* load_env: .env missing -> sys.exit(1)
LoadEnv ==
    /\ pc = "load_env"
    /\ \/ /\ Exit(1, "no_env")
          /\ UNCHANGED env_vars
       \/ /\ \E f \in EnvFiles : env_vars' = f
          /\ pc' = "check_config"
          /\ UNCHANGED <<exitCode, exitReason>>
    /\ UNCHANGED <<repo_paths, repo_names, idx, cwd, total_commits, log>>
    /\ UNCHANGED <<gitVars, aggVars, sumVars, outVars>>

\* main: split the two lists and compare their lengths
CheckConfig ==
    /\ pc = "check_config"
    /\ repo_paths' = Split(EnvGet(env_vars, "REPO_PATHS", <<>>), ",")
    /\ repo_names' = Split(EnvGet(env_vars, "REPO_NAMES", <<>>), ",")
    /\ IF Len(repo_paths') # Len(repo_names')
       THEN Exit(1, "mismatch")
       ELSE pc' = "loop" /\ UNCHANGED <<exitCode, exitReason>>
    /\ UNCHANGED <<env_vars, idx, cwd, total_commits, log>>
    /\ UNCHANGED <<gitVars, aggVars, sumVars, outVars>>

\* main's control flow after the repository loop
StageAfter_swapped(stage) ==
    CASE stage = "summarize" -> "write"
      [] stage = "write" -> "email"
      [] stage = "email" -> "exited"
StageAfter(stage) ==
    CASE stage = "summarize" -> "email"
      [] stage = "email" -> "write"
      [] stage = "write" -> "exited"

\* head of the for loop; entering get_commits_by_date saves os.getcwd()
LoopNext ==
    /\ pc = "loop"
    /\ IF idx > Len(repo_paths)
       THEN /\ pc' = "totals"
            /\ UNCHANGED <<original_dir, log>>
       ELSE /\ pc' = "gcbd_chdir"
            /\ original_dir' = cwd
            /\ log' = Append(log, <<"extract", idx>>)
    /\ exc' = "none"
    /\ ret' = << >>
    /\ stdout' = << >>
    /\ gitOutcome' = "none"
    /\ diag' = "none"
    /\ UNCHANGED <<exitCode, exitReason, idx, cwd, total_commits>>
    /\ UNCHANGED <<cfgVars, aggVars, sumVars, outVars>>

\* if repo_path: os.chdir(repo_path)
GcbdChdir ==
    /\ pc = "gcbd_chdir"
    /\ LET repo_path == Strip(repo_paths[idx])
       IN  IF repo_path = << >>
           THEN pc' = "gcbd_git" /\ UNCHANGED <<cwd, exc>>
           ELSE \/ pc' = "gcbd_git" /\ cwd' = repo_path /\ UNCHANGED exc
                \/ \E e \in ChdirFailures :
                      pc' = "gcbd_finally" /\ exc' = e /\ UNCHANGED cwd
    /\ UNCHANGED <<exitCode, exitReason, idx, total_commits, log>>
    /\ UNCHANGED <<original_dir, ret, stdout, gitOutcome, diag>>
    /\ UNCHANGED <<cfgVars, aggVars, sumVars, outVars>>

\* subprocess.run(git log ..., check=True) and the parsing of its stdout
GcbdGit ==
    /\ pc = "gcbd_git"
    /\ \/ \E e \in GitFailures :
             /\ gitOutcome' = e
             /\ exc' = e
             /\ UNCHANGED <<ret, stdout>>
       \/ \E out \in GitOutputs :
             LET r == ParseOutput(out, Strip(repo_names[idx]))
             IN  /\ gitOutcome' = "ok"
                 /\ stdout' = out
                 /\ exc' = r.exc
                 /\ ret' = r.commits
    /\ pc' = "gcbd_finally"
    /\ UNCHANGED <<exitCode, exitReason, idx, cwd, total_commits, log>>
    /\ UNCHANGED <<original_dir, diag>>
    /\ UNCHANGED <<cfgVars, aggVars, sumVars, outVars>>

\* the except clauses of get_commits_by_date
GitCatches_noNotFound(e) == e \in { "CalledProcessError" }
GitCatches(e) == e \in { "CalledProcessError", "FileNotFoundError" }

\* finally: os.chdir(original_dir)
FinallyDir_keep(saved, current) == current
FinallyDir(saved, current) == saved

\* except clauses, then the finally clause, then return or propagate
GcbdFinally ==
    /\ pc = "gcbd_finally"
    /\ cwd' = FinallyDir(original_dir, cwd)
    /\ stdout' = << >>
    /\ IF exc = "none"
       THEN /\ pc' = "store"
            /\ diag' = IF gitOutcome = "ok" /\ ret = << >> /\ Strip(stdout) = << >>
                       THEN "no_commits" ELSE "none"
            /\ UNCHANGED <<exc, ret, exitCode, exitReason>>
       ELSE IF GitCatches(exc)
       THEN /\ pc' = "store"
            /\ diag' = IF exc = "CalledProcessError" THEN "git_error" ELSE "git_not_found"
            /\ ret' = << >>
            /\ exc' = "none"
            /\ UNCHANGED <<exitCode, exitReason>>
       ELSE /\ Exit(1, "uncaught")
            /\ UNCHANGED <<exc, ret, diag>>
    /\ UNCHANGED <<idx, total_commits, log, original_dir, gitOutcome>>
    /\ UNCHANGED <<cfgVars, aggVars, sumVars, outVars>>

\* body of the for loop after the call returned
MainStore ==
    /\ pc = "store"
    /\ LET repo_name == Strip(repo_names[idx])
       IN  IF ret # << >>
           THEN /\ project_commits' = DictSet(project_commits, repo_name, ret)
                /\ all_commits' = all_commits \o ret
           ELSE /\ project_commits' = DictSet(project_commits, repo_name, << >>)
                /\ UNCHANGED all_commits
    /\ results' = Append(results, [git |-> gitOutcome, commits |-> ret])
    /\ idx' = idx + 1
    /\ pc' = "loop"
    /\ UNCHANGED <<exitCode, exitReason, cwd, total_commits, log>>
    /\ UNCHANGED <<cfgVars, gitVars, sumVars, outVars>>

\* if total_commits > 0
ShouldSummarize_always(total) == total >= 0
ShouldSummarize(total) == total > 0

\* the summary main substitutes when there is nothing to summarize
NoCommitsFallback_today == NoCommitsToday
NoCommitsFallback == NoCommitsAcross

\* total_commits = len(all_commits) and the branch on it
Totals ==
    /\ pc = "totals"
    /\ total_commits' = Len(all_commits)
    /\ IF ShouldSummarize(total_commits')
       THEN /\ pc' = "ollama_start"
            /\ UNCHANGED <<concise_summary, bullet_points>>
       ELSE /\ pc' = "email"
            /\ concise_summary' = NoCommitsFallback
            /\ bullet_points' = EmptyString
    /\ UNCHANGED <<exitCode, exitReason, idx, cwd, log, httpCalls>>
    /\ UNCHANGED <<cfgVars, gitVars, aggVars, outVars>>

\* names of the projects that get a prompt section
PromptSections(d) ==
    SelectSeq([i \in 1..Len(d) |-> d[i]], LAMBDA e : e.commits # << >>)

\* get_ollama_summary up to the first request
OllamaStart ==
    /\ pc = "ollama_start"
    /\ log' = Append(log, <<"summarize", 0>>)
    /\ IF project_commits = << >>
       THEN /\ concise_summary' = NoCommitsToday
            /\ bullet_points' = EmptyDict
            /\ pc' = StageAfter("summarize")
       ELSE IF PromptSections(project_commits) = << >>
       THEN /\ concise_summary' = NoCommitsAcross
            /\ bullet_points' = EmptyDict
            /\ pc' = StageAfter("summarize")
       ELSE /\ pc' = "ollama_call1"
            /\ UNCHANGED <<concise_summary, bullet_points>>
    /\ UNCHANGED <<exitCode, exitReason, idx, cwd, total_commits, httpCalls>>
    /\ UNCHANGED <<cfgVars, gitVars, aggVars, outVars>>

\* what a curl invocation raises, if anything
CurlRaises(outcome) == outcome \in { "CalledProcessError", "JSONDecodeError" }

\* except Exception as e
OllamaCatches_subprocessOnly(e) == e = "CalledProcessError"
OllamaCatches(e) == TRUE

\* return f"Error with Ollama: {e}", ""
OllamaOnError_keep(e, concise_so_far) ==
    IF concise_so_far = Unset
    THEN <<ErrorWithOllama(e), EmptyString>>
    ELSE <<concise_so_far, ErrorWithOllama(e)>>
OllamaOnError(e, concise_so_far) == <<ErrorWithOllama(e), EmptyString>>

\* first curl request: the concise summary
OllamaCall1 ==
    /\ pc = "ollama_call1"
    /\ \E o \in CurlOutcomes :
          /\ httpCalls' = Append(httpCalls, [prompt |-> "concise", outcome |-> o])
          /\ IF CurlRaises(o)
             THEN IF OllamaCatches(o)
                  THEN /\ concise_summary' = OllamaOnError(o, Unset)[1]
                       /\ bullet_points' = OllamaOnError(o, Unset)[2]
                       /\ pc' = StageAfter("summarize")
                       /\ UNCHANGED <<exitCode, exitReason>>
                  ELSE /\ Exit(1, "uncaught")
                       /\ UNCHANGED <<concise_summary, bullet_points>>
             ELSE /\ concise_summary' = IF o = "ok" THEN Response1 ELSE NoResponse
                  /\ pc' = "ollama_call2"
                  /\ UNCHANGED <<bullet_points, exitCode, exitReason>>
    /\ UNCHANGED <<idx, cwd, total_commits, log>>
    /\ UNCHANGED <<cfgVars, gitVars, aggVars, outVars>>

\* second curl request: the bullet breakdown
OllamaCall2 ==
    /\ pc = "ollama_call2"
    /\ \E o \in CurlOutcomes :
          /\ httpCalls' = Append(httpCalls, [prompt |-> "bullet", outcome |-> o])
          /\ IF CurlRaises(o)
             THEN IF OllamaCatches(o)
                  THEN /\ concise_summary' = OllamaOnError(o, concise_summary)[1]
                       /\ bullet_points' = OllamaOnError(o, concise_summary)[2]
                       /\ pc' = StageAfter("summarize")
                       /\ UNCHANGED <<exitCode, exitReason>>
                  ELSE /\ Exit(1, "uncaught")
                       /\ UNCHANGED <<concise_summary, bullet_points>>
             ELSE /\ bullet_points' = IF o = "ok" THEN Response2 ELSE NoBullets
                  /\ pc' = StageAfter("summarize")
                  /\ UNCHANGED <<concise_summary, exitCode, exitReason>>
    /\ UNCHANGED <<idx, cwd, total_commits, log>>
    /\ UNCHANGED <<cfgVars, gitVars, aggVars, outVars>>

\* send_email: any failure is printed and swallowed
SendEmail ==
    /\ pc = "email"
    /\ \E sent \in BOOLEAN :
          emailed' = [attempted |-> TRUE,
                      sent |-> sent,
                      total |-> total_commits,
                      breakdown |-> [i \in 1..Len(project_commits) |->
                                       <<project_commits[i].name, Len(project_commits[i].commits)>>],
                      concise |-> concise_summary,
                      bullets |-> bullet_points]
    /\ log' = Append(log, <<"email", 0>>)
    /\ pc' = StageAfter("email")
    /\ IF pc' = "exited"
       THEN exitCode' = 0 /\ exitReason' = "ok"
       ELSE UNCHANGED <<exitCode, exitReason>>
    /\ UNCHANGED <<idx, cwd, total_commits, written>>
    /\ UNCHANGED <<cfgVars, gitVars, aggVars, sumVars>>

\* the output file: IOError -> sys.exit(1); otherwise main returns
WriteFile ==
    /\ pc = "write"
    /\ log' = Append(log, <<"write", 0>>)
    /\ \/ /\ written' = [done |-> TRUE,
                         total |-> total_commits,
                         projects |-> project_commits,
                         concise |-> concise_summary,
                         bullets |-> bullet_points]
          /\ pc' = StageAfter("write")
          /\ IF pc' = "exited"
             THEN exitCode' = 0 /\ exitReason' = "ok"
             ELSE UNCHANGED <<exitCode, exitReason>>
       \/ /\ Exit(1, "write")
          /\ UNCHANGED written
    /\ UNCHANGED <<idx, cwd, total_commits, emailed>>
    /\ UNCHANGED <<cfgVars, gitVars, aggVars, sumVars>>

Next ==
    \/ LoadEnv
    \/ CheckConfig
    \/ LoopNext
    \/ GcbdChdir
    \/ GcbdGit
    \/ GcbdFinally
    \/ MainStore
    \/ Totals
    \/ OllamaStart
    \/ OllamaCall1
    \/ OllamaCall2
    \/ SendEmail
    \/ WriteFile

Spec == Init /\ [][Next]_vars

\* ------------------------------------------------------------ properties
Raised(i) == CurlRaises(httpCalls[i].outcome)
OllamaFailed == \E i \in 1..Len(httpCalls) : Raised(i)
InsideGcbd == pc \in { "gcbd_chdir", "gcbd_git", "gcbd_finally" }
CompletedRun == pc = "exited" /\ exitReason \in { "ok", "write" }
SummaryInUse == pc \in { "email", "write" } \/ CompletedRun
LoopFinished ==
    \/ pc \in { "totals", "ollama_start", "ollama_call1", "ollama_call2", "email", "write" }
    \/ CompletedRun
Logged(tag) == \E i \in 1..Len(log) : log[i][1] = tag
IsPrefix(s, t) == Len(s) <= Len(t) /\ s = SubSeq(t, 1, Len(s))

\* C1 (as stated): a failing request yields the error string for that request
\* only: when the first request fails the second is still issued and its
\* result returned, and when the second fails the concise summary obtained
\* from the first is still returned.
C1_IndependentCalls ==
    (SummaryInUse /\ OllamaFailed) =>
        /\ Len(httpCalls) = 2
        /\ Raised(1) /\ ~Raised(2) => bullet_points \in { Response2, NoBullets }
        /\ ~Raised(1) /\ Raised(2) => concise_summary \in { Response1, NoResponse }

\* C1 (amended): the two requests share one handler: when either fails the
\* concise summary is the error string of that failure and the bullet
\* breakdown is empty; a failing first request means the second is never
\* issued, and a failing second request discards the first one's summary.
C1_SharedHandler ==
    (SummaryInUse /\ OllamaFailed) =>
        LET k == Len(httpCalls)
        IN  /\ Raised(k)
            /\ \A i \in 1..(k - 1) : ~Raised(i)
            /\ concise_summary = ErrorWithOllama(httpCalls[k].outcome)
            /\ bullet_points = EmptyString
            /\ httpCalls[1].prompt = "concise"
            /\ k = 2 => httpCalls[2].prompt = "bullet"

C1_Witness ==
    /\ SummaryInUse
    /\ Len(httpCalls) = 2
    /\ httpCalls[1].outcome = "ok"
    /\ Raised(2)

\* C2: outside get_commits_by_date the working directory is the directory
\* the run started in, whatever path the call left by; inside the call the
\* saved directory is that same directory.
C2_CwdRestored ==
    /\ ~InsideGcbd => cwd = StartDir
    /\ InsideGcbd => original_dir = StartDir

C2_Witness ==
    /\ pc = "exited"
    /\ exitReason = "uncaught"
    /\ exc = "ValueError"
    /\ Strip(repo_paths[idx]) # << >>
    /\ cwd = StartDir

\* C3: a run ends with a non-zero exit only on a missing configuration
\* file, a length mismatch of the two lists or a failed write of the output
\* file; every other failure ends in exit code 0.
C3_NonZeroOnlyOnFatal ==
    pc = "exited" =>
        IF exitReason \in { "no_env", "mismatch", "write" }
        THEN exitCode # 0
        ELSE exitCode = 0

\* C4: after the repository loop every configured project name is a key of
\* the project-to-commits mapping, and a repository whose extraction
\* returned no commits is recorded with an empty list.
C4_EveryProjectRecorded ==
    LoopFinished =>
        \A i \in 1..Len(repo_names) :
            /\ HasKey(project_commits, Strip(repo_names[i]))
            /\ results[i].commits = << >> =>
                  DictGet(project_commits, Strip(repo_names[i])) = << >>

\* C5: the total commit count equals the sum of the lengths of the
\* per-project lists of the mapping, repeated display names included.
C5_TotalIsSumOfProjects ==
    SummaryInUse => total_commits = SumLens(project_commits)

\* C6: when the total commit count is zero no text-generation request is
\* issued at any point of the run, and the summary that is emailed and
\* written is the fixed "no commits" message.
C6_NoCallWhenZero ==
    /\ httpCalls # << >> => all_commits # << >>
    /\ (SummaryInUse /\ total_commits = 0) =>
          /\ httpCalls = << >>
          /\ concise_summary = NoCommitsAcross
          /\ emailed.attempted => emailed.concise = NoCommitsAcross
          /\ written.done => written.concise = NoCommitsAcross

C6_Witness ==
    /\ pc = "exited"
    /\ exitReason = "ok"
    /\ Len(repo_names) = 2
    /\ total_commits = 0
    /\ emailed.attempted
    /\ written.done

\* C7: a failing text-generation request never ends the run: the summary
\* becomes a string holding the failure reason, the email is then attempted
\* and the output file written.
C7_FailureDegrades ==
    OllamaFailed =>
        /\ exitReason # "uncaught"
        /\ pc \in { "email", "write", "exited" }
        /\ concise_summary[2] \in { "CalledProcessError", "JSONDecodeError" }
        /\ pc \in { "write", "exited" } =>
              emailed.attempted /\ emailed.concise = concise_summary
        /\ pc = "exited" =>
              /\ Logged("write")
              /\ written.done => written.concise = concise_summary

C7_Witness ==
    /\ OllamaFailed
    /\ pc = "exited"
    /\ exitReason = "ok"
    /\ emailed.attempted
    /\ written.done
    /\ written.concise = ErrorWithOllama("JSONDecodeError")

ExpectedRecords(cs, repo_name) ==
    [i \in 1..Len(cs) |->
        [hash |-> SubSeq(cs[i].H, 1, 8),
         author |-> cs[i].an,
         date |-> cs[i].ad,
         message |-> Strip(cs[i].B),
         repo |-> repo_name]]

\* C9: output made of n sentinel-delimited commit blocks parses into exactly
\* n records in the same order, each with the first 8 characters of the
\* hash, the header's author and date, and the trimmed message, a message
\* containing '|' included.
C9_ParseRoundTrip ==
    (pc = "gcbd_finally" /\ gitOutcome = "ok") =>
        \A cs \in CommitLists :
            stdout = GitLog(cs) =>
                /\ exc = "none"
                /\ ret = ExpectedRecords(cs, Strip(repo_names[idx]))

C9_Witness ==
    /\ pc = "gcbd_finally"
    /\ gitOutcome = "ok"
    /\ Len(ret) = 2
    /\ ret[1].message = <<"m", "|", "m">>
    /\ ret[2].message = <<"m", NL, "k">>
    /\ ret[1].hash = <<"1","2","3","4","5","6","7","8">>

\* the stages of a run that passed the configuration checks, in order
FullOrder(n, summarized) ==
    [i \in 1..n |-> <<"extract", i>>]
      \o (IF summarized THEN << <<"summarize", 0>> >> ELSE << >>)
      \o << <<"email", 0>>, <<"write", 0>> >>

\* C10: the stages of a run happen in the order extract each repository once
\* in configured order, summarize (only when commits exist), one email
\* attempt, one write attempt; a run that reaches its end has done all of
\* them.
C10_StrictOrder ==
    /\ \E s \in BOOLEAN : IsPrefix(log, FullOrder(Len(repo_paths), s))
    /\ Logged("summarize") => total_commits > 0
    /\ Logged("email") => (Logged("summarize") <=> total_commits > 0)
    /\ pc = "write" => emailed.attempted /\ ~Logged("write")
    /\ Logged("summarize") => idx = Len(repo_paths) + 1
    /\ CompletedRun => log = FullOrder(Len(repo_paths), total_commits > 0)
    /\ (pc = "exited" /\ exitCode = 0) => CompletedRun

C10_Witness ==
    /\ CompletedRun
    /\ Len(repo_paths) = 2
    /\ Logged("summarize")
    /\ Len(log) = 5

====
